---------------------------- MODULE Spec2Model ----------------------------
(***************************************************************************)
(* Model of backend/ocr-worker/handler.py of bookclub-app: the Lambda      *)
(* entrypoint `handler` (validation, download, engine initialisation,      *)
(* recognition, ranking, uniform result) and the candidate ranker          *)
(* `_heuristic_candidates` with its helpers `_bbox_area`, `_norm` and      *)
(* `_dedup`.                                                               *)
(*                                                                         *)
(* Representation.  A Python str is a sequence of one-character strings.   *)
(* A confidence is an integer number of 1/10000 (9500 is 0.95); a rounded  *)
(* confidence is an integer number of 1/1000.  Coordinates and areas are   *)
(* integers.  A value whose Python type varies (a coordinate, a            *)
(* confidence, the text, the box) is a record with a `kind` tag.           *)
(***************************************************************************)
EXTENDS Integers, Sequences, FiniteSets, TLC

VARIABLES pc, event, path, OCR, PaddleOCR, lines, exc, result

vars == <<pc, event, path, OCR, PaddleOCR, lines, exc, result>>

(***************************************************************************)
(* Program constants.                                                      *)
(***************************************************************************)
AreaNorm == 10000
TopN == 20
MaxValueLen == 200
MinValueLen == 3
AuthorMaxLen == 80
MaxOut == 5

(***************************************************************************)
(* Bounds of the model.                                                    *)
(***************************************************************************)
MaxFree == 2
MaxMixed == 1

(***************************************************************************)
(* Python str operations.                                                  *)
(***************************************************************************)
Min(S) == CHOOSE x \in S : \A y \in S : x <= y
Max(S) == CHOOSE x \in S : \A y \in S : x >= y

IsSpace(c) == c \in {" ", "\n", "\t"}

UpperChars ==
    << "A", "B", "C", "D", "E", "F", "G", "H", "I", "J", "K", "L", "M",
       "N", "O", "P", "Q", "R", "S", "T", "U", "V", "W", "X", "Y", "Z" >>
LowerChars ==
    << "a", "b", "c", "d", "e", "f", "g", "h", "i", "j", "k", "l", "m",
       "n", "o", "p", "q", "r", "s", "t", "u", "v", "w", "x", "y", "z" >>

ToLower ==
    [c \in {UpperChars[i] : i \in 1..Len(UpperChars)} |->
        LowerChars[CHOOSE i \in 1..Len(UpperChars) : UpperChars[i] = c]]

LowerChar(c) == IF c \in DOMAIN ToLower THEN ToLower[c] ELSE c

\* str.lower()
lower(s) == [i \in 1..Len(s) |-> LowerChar(s[i])]

\* str.strip()
strip(s) ==
    LET keep == {i \in 1..Len(s) : ~IsSpace(s[i])}
    IN  IF keep = {} THEN << >> ELSE SubSeq(s, Min(keep), Max(keep))

\* s.replace('\n', ' ')
replace_newlines(s) == [i \in 1..Len(s) |-> IF s[i] = "\n" THEN " " ELSE s[i]]

\* str.split() with no separator: the maximal runs of non-whitespace, in order
split(s) ==
    LET starts == {i \in 1..Len(s) :
                      ~IsSpace(s[i]) /\ (i = 1 \/ IsSpace(s[i - 1]))}
        ends == {i \in 1..Len(s) :
                    ~IsSpace(s[i]) /\ (i = Len(s) \/ IsSpace(s[i + 1]))}
        start(k) == CHOOSE i \in starts : Cardinality({j \in starts : j < i}) = k - 1
        end(k) == Min({e \in ends : e >= start(k)})
    IN  [k \in 1..Cardinality(starts) |-> SubSeq(s, start(k), end(k))]

\* ' '.join(words)
RECURSIVE JoinFrom(_, _, _)
JoinFrom(words, i, acc) ==
    IF i > Len(words) THEN acc
    ELSE JoinFrom(words, i + 1,
                  IF i = 1 THEN words[1] ELSE acc \o << " " >> \o words[i])

join(words) == JoinFrom(words, 1, << >>)

\* s[:n]
Truncate(s, n) == IF Len(s) <= n THEN s ELSE SubSeq(s, 1, n)

\* sub in t
Contains(t, sub) ==
    \E i \in 1..(Len(t) - Len(sub) + 1) : SubSeq(t, i, i + Len(sub) - 1) = sub

\* _norm without the [:200]
norm_untruncated(s) == join(split(replace_newlines(s)))

\* _norm
norm(s) == Truncate(join(split(replace_newlines(s))), MaxValueLen)


(***************************************************************************)
(* Values of the recognition engine's output.  An entry is                 *)
(* [ bbox, (text, conf) ]; each part may be absent (the index raises) or   *)
(* of another type than the documented one.                                *)
(***************************************************************************)
Num(n) == [kind |-> "num", v |-> n]
NonNumeric == [kind |-> "str", v |-> 0]
NoNumber == [kind |-> "absent", v |-> 0]

Str(s) == [kind |-> "str", s |-> s]
NoneText == [kind |-> "none", s |-> << >>]
NoText == [kind |-> "absent", s |-> << >>]

Points(pts) == [kind |-> "list", pts |-> pts]
NoBox == [kind |-> "absent", pts |-> << >>]

Item(bbox, text, conf) == [bbox |-> bbox, text |-> text, conf |-> conf]

(***************************************************************************)
(* _bbox_area: the area of the axis-aligned bounding box of the points,    *)
(* each factor floored at 0.  max() of an empty list raises ValueError and *)
(* arithmetic on a non-numeric coordinate raises TypeError.                *)
(***************************************************************************)
Raised == [raised |-> TRUE, v |-> 0]
Returned(n) == [raised |-> FALSE, v |-> n]

bbox_area(bbox) ==
    LET xs == [i \in 1..Len(bbox) |-> bbox[i][1]]
        ys == [i \in 1..Len(bbox) |-> bbox[i][2]]
        xv == {xs[i].v : i \in 1..Len(xs)}
        yv == {ys[i].v : i \in 1..Len(ys)}
    IN  IF Len(bbox) = 0 THEN Raised
        ELSE IF \E i \in 1..Len(bbox) : xs[i].kind # "num" \/ ys[i].kind # "num"
             THEN Raised
             ELSE Returned(Max({0, Max(xv) - Min(xv)}) * Max({0, Max(yv) - Min(yv)}))

(***************************************************************************)
(* The body of the try block of _heuristic_candidates for one entry: the   *)
(* line it appends, or nothing when a statement raises or the text is      *)
(* empty or not a str.                                                     *)
(***************************************************************************)
Line(text, conf, area) == [text |-> text, conf |-> conf, area |-> area]

\* the try block with a confidence that float() rejects taken as 0.0
parse_item_default_conf(item) ==
    IF item.bbox.kind = "absent" THEN << >>
    ELSE IF item.text.kind = "absent" THEN << >>
    ELSE IF item.conf.kind = "absent" THEN << >>
    ELSE LET area == bbox_area(item.bbox.pts)
         IN  IF area.raised THEN << >>
             ELSE IF item.text.kind = "str" /\ item.text.s # << >>
                  THEN << Line(strip(item.text.s), item.conf.v, area.v) >>
                  ELSE << >>

parse_item(item) ==
    IF item.bbox.kind = "absent" THEN << >>                 \* item[0] raises
    ELSE IF item.text.kind = "absent" THEN << >>            \* item[1][0] raises
    ELSE IF item.conf.kind # "num" THEN << >>               \* float(...) raises
    ELSE LET area == bbox_area(item.bbox.pts)
         IN  IF area.raised THEN << >>
             ELSE IF item.text.kind = "str" /\ item.text.s # << >>
                  THEN << Line(strip(item.text.s), item.conf.v, area.v) >>
                  ELSE << >>

RECURSIVE ParseFrom(_, _, _)
ParseFrom(items, i, acc) ==
    IF i > Len(items) THEN acc
    ELSE ParseFrom(items, i + 1, acc \o parse_item(items[i]))

parse_lines(items) == ParseFrom(items, 1, << >>)

(***************************************************************************)
(* The ranking key conf * (1.0 + area / 10000.0), scaled by AreaNorm so    *)
(* that it stays an integer, and sorted(..., reverse=True), which is       *)
(* stable: equal keys keep their input order.                              *)
(***************************************************************************)
\* the key conf * area
salience_product(l) == l.conf * l.area

salience(l) == l.conf * (AreaNorm + l.area)

\* an insertion that puts x ahead of the lines of equal salience
InsertDescUnstable(sorted, x) ==
    LET ahead == {k \in 1..Len(sorted) : salience(sorted[k]) > salience(x)}
        n == IF ahead = {} THEN 0 ELSE Max(ahead)
    IN  SubSeq(sorted, 1, n) \o << x >> \o SubSeq(sorted, n + 1, Len(sorted))

InsertDesc(sorted, x) ==
    LET ahead == {k \in 1..Len(sorted) : salience(sorted[k]) >= salience(x)}
        n == IF ahead = {} THEN 0 ELSE Max(ahead)
    IN  SubSeq(sorted, 1, n) \o << x >> \o SubSeq(sorted, n + 1, Len(sorted))

RECURSIVE SortFrom(_, _, _)
SortFrom(ls, i, acc) ==
    IF i > Len(ls) THEN acc ELSE SortFrom(ls, i + 1, InsertDesc(acc, ls[i]))

sorted_desc(ls) == SortFrom(ls, 1, << >>)

ranked_lines(items) == sorted_desc(parse_lines(items))

(***************************************************************************)
(* round(conf, 3): to the nearest 1/1000, halves to even.                  *)
(***************************************************************************)
round3(c) ==
    LET q == c \div 10
        r == c % 10
    IN  IF r < 5 THEN q
        ELSE IF r > 5 THEN q + 1
        ELSE IF q % 2 = 0 THEN q ELSE q + 1

Candidate(value, conf) == [value |-> value, confidence |-> round3(conf)]

(***************************************************************************)
(* The classification loop over ranked[:20].                               *)
(***************************************************************************)
\* the author test with len(t) <= 80
is_author_le(t) ==
    /\ \/ Contains(t, << "," >>)
       \/ Contains(t, << " ", "a", "n", "d", " " >>)
       \/ Contains(t, << " ", "&", " " >>)
    /\ Len(t) <= AuthorMaxLen

is_author(t) ==
    /\ \/ Contains(t, << "," >>)
       \/ Contains(t, << " ", "a", "n", "d", " " >>)
       \/ Contains(t, << " ", "&", " " >>)
    /\ Len(t) < AuthorMaxLen

qualifies(t) == t # << >> /\ Len(t) >= MinValueLen

\* ranked without the [:20]
top_ranked_all(ranked) == ranked

top_ranked(ranked) == Truncate(ranked, TopN)

normalized(ranked) ==
    [i \in 1..Len(ranked) |-> [t |-> norm(ranked[i].text), conf |-> ranked[i].conf]]

RECURSIVE ClassifyFrom(_, _, _, _)
ClassifyFrom(ns, i, titles, authors) ==
    IF i > Len(ns) THEN [title_cands |-> titles, author_cands |-> authors]
    ELSE IF ~qualifies(ns[i].t)
         THEN ClassifyFrom(ns, i + 1, titles, authors)
         ELSE IF is_author(ns[i].t)
              THEN ClassifyFrom(ns, i + 1, titles,
                                Append(authors, Candidate(ns[i].t, ns[i].conf)))
              ELSE ClassifyFrom(ns, i + 1,
                                Append(titles, Candidate(ns[i].t, ns[i].conf)),
                                authors)

classify(ranked) == ClassifyFrom(normalized(top_ranked(ranked)), 1, << >>, << >>)

(***************************************************************************)
(* _dedup: first occurrence of each lower-cased value, then out[:5].       *)
(***************************************************************************)
RECURSIVE DedupFrom(_, _, _, _)
DedupFrom(items, i, seen, out) ==
    IF i > Len(items) THEN out
    ELSE LET v == lower(items[i].value)
         IN  IF v # << >> /\ v \notin seen
             THEN DedupFrom(items, i + 1, seen \cup {v}, Append(out, items[i]))
             ELSE DedupFrom(items, i + 1, seen, out)

\* _dedup that compares the values as they are
RECURSIVE DedupExactFrom(_, _, _, _)
DedupExactFrom(items, i, seen, out) ==
    IF i > Len(items) THEN out
    ELSE LET v == items[i].value
         IN  IF v # << >> /\ v \notin seen
             THEN DedupExactFrom(items, i + 1, seen \cup {v}, Append(out, items[i]))
             ELSE DedupExactFrom(items, i + 1, seen, out)

dedup_case_sensitive(items) == Truncate(DedupExactFrom(items, 1, {}, << >>), MaxOut)

\* _dedup without the [:5]
dedup_uncapped(items) == DedupFrom(items, 1, {}, << >>)

dedup(items) == Truncate(DedupFrom(items, 1, {}, << >>), MaxOut)

(***************************************************************************)
(* _heuristic_candidates on a list of entries.                             *)
(***************************************************************************)
heuristic_candidates(items) ==
    LET c == classify(ranked_lines(items))
    IN  [titles |-> dedup(c.title_cands), authors |-> dedup(c.author_cands)]


(***************************************************************************)
(* The detections the recognition engine is taken to produce.              *)
(***************************************************************************)
Rep(c, n) == [i \in 1..n |-> c]

Box(w, h) ==
    Points(<< << Num(0), Num(0) >>, << Num(w), Num(0) >>,
              << Num(w), Num(h) >>, << Num(0), Num(h) >> >>)

Triangle(w, h) ==
    Points(<< << Num(0), Num(0) >>, << Num(w), Num(0) >>, << Num(0), Num(h) >> >>)

BadCoordBox ==
    Points(<< << Num(0), Num(0) >>, << NonNumeric, Num(0) >>,
              << Num(10), Num(10) >>, << Num(0), Num(10) >> >>)

Ghost == << "G", "h", "o", "s", "t" >>

\* two spellings of one title with equal salience and different confidence
dHamletUpper == Item(Box(10, 10), Str(<< "H", "A", "M", "L", "E", "T" >>), Num(10000))
dHamletLower == Item(Box(100, 100), Str(<< "h", "a", "m", "l", "e", "t" >>), Num(5050))
\* whitespace to collapse; the confidence rounds down
dOldMan ==
    Item(Box(10, 5),
         Str(<< " ", "O", "l", "d", " ", " ", "M", "a", "n", "\n", "S", "e", "a", "\n" >>),
         Num(8004))
dAuthorComma == Item(Box(10, 10), Str(<< "J", "o", ",", " ", "A", "l" >>), Num(9000))
dAuthorAnd ==
    Item(Box(20, 20), Str(<< "A", "l", " ", "a", "n", "d", " ", "B", "o" >>), Num(8000))
dTitleAND ==
    Item(Box(10, 10), Str(<< "A", "L", " ", "A", "N", "D", " ", "B", "O" >>), Num(7000))
dAuthorAmp == Item(Box(10, 10), Str(<< "R", " ", "&", " ", "D" >>), Num(6006))
\* a large box with a low confidence
dBigLowConf ==
    Item(Box(1000, 100), Str(<< "B", "i", "g", " ", "A", "d" >>), Num(5000))
\* lengths around the limits of _norm and of the author test
dLongComma == Item(Box(10, 10), Str(<< "a", "," >> \o Rep("x", MaxValueLen - 1)), Num(9000))
dComma79 == Item(Box(10, 10), Str(<< "," >> \o Rep("y", AuthorMaxLen - 2)), Num(9000))
dComma80 == Item(Box(10, 10), Str(<< "," >> \o Rep("y", AuthorMaxLen - 1)), Num(9000))
dShort == Item(Box(10, 10), Str(<< "n", "o" >>), Num(9900))
dBlank == Item(Box(10, 10), Str(<< " ", "\n", " " >>), Num(9900))
dThree == Item(Box(10, 10), Str(<< "a", " ", " ", "b" >>), Num(9900))
\* entries the try block rejects
dNoBox == Item(NoBox, Str(Ghost), Num(9900))
dNoText == Item(Box(10, 10), NoText, Num(9900))
dNoConf == Item(Box(10, 10), Str(Ghost), NoNumber)
dBadCoord == Item(BadCoordBox, Str(Ghost), Num(9900))
dBadConf == Item(Box(10, 10), Str(Ghost), NonNumeric)
dEmptyBox == Item(Points(<< >>), Str(Ghost), Num(9900))
\* entries that raise nothing and append nothing
dNoneText == Item(Box(10, 10), NoneText, Num(9900))
dEmptyText == Item(Box(10, 10), Str(<< >>), Num(9900))
\* a box of three points
dTriangle ==
    Item(Triangle(10, 10), Str(<< "T", "r", "i", " ", "B", "o", "x" >>), Num(9000))

Detections ==
    { dHamletUpper, dHamletLower, dOldMan, dAuthorComma, dAuthorAnd, dTitleAND,
      dAuthorAmp, dBigLowConf, dLongComma, dComma79, dComma80, dShort, dBlank,
      dThree, dNoBox, dNoText, dNoConf, dBadCoord, dBadConf, dEmptyBox,
      dNoneText, dEmptyText, dTriangle }

\* runs of detections: equally salient distinct titles, one title in two
\* spellings with rising confidence, equally salient distinct authors, and
\* equally salient texts that are too short
TitleRun(n) ==
    [i \in 1..n |->
        Item(Box(10, 10), Str(<< "V", "o", "l", " ", UpperChars[i] >>), Num(9900))]
SameRun(n) ==
    [i \in 1..n |->
        Item(Box(10, 10),
             Str(IF i % 2 = 1 THEN << "S", "a", "m", "e" >> ELSE << "S", "A", "M", "E" >>),
             Num(9900 + i))]
AuthorRun(n) ==
    [i \in 1..n |->
        Item(Box(10, 10), Str(<< UpperChars[i], ",", " ", "B" >>), Num(9900))]
ShortRun(n) == [i \in 1..n |-> dShort]

Runs ==
    { TitleRun(MaxOut + 1), TitleRun(TopN + 1), AuthorRun(MaxOut + 1),
      SameRun(TopN), ShortRun(TopN) }

SeqsUpTo(S, n) == UNION { [1..k -> S] : k \in 0..n }

\* the detections set before or after a run: above, level with and below
\* the run's salience, rejected, and with a box of three points
Beside ==
    { dHamletUpper, dBigLowConf, dOldMan, dAuthorComma, dThree, dShort,
      dBadConf, dTriangle }

Batches ==
    SeqsUpTo(Detections, MaxFree)
        \cup { p \o r : p \in SeqsUpTo(Beside, MaxMixed), r \in Runs }
        \cup { r \o p : p \in SeqsUpTo(Beside, MaxMixed), r \in Runs }

(***************************************************************************)
(* The Lambda container: the module globals PaddleOCR and _OCR, and one    *)
(* invocation of handler at a time.                                        *)
(***************************************************************************)
Payload(b, k, u) == [kind |-> "dict", s3Bucket |-> b, s3Key |-> k, imageUrl |-> u]
NotADict == [kind |-> "other", s3Bucket |-> FALSE, s3Key |-> FALSE, imageUrl |-> FALSE]
NoEvent == [kind |-> "none", s3Bucket |-> FALSE, s3Key |-> FALSE, imageUrl |-> FALSE]

Events == { Payload(b, k, u) : b, k, u \in BOOLEAN } \cup { NotADict }

List(items) == [kind |-> "list", items |-> items]
NoneLines == [kind |-> "none", items |-> << >>]
ScalarLines == [kind |-> "scalar", items |-> << >>]
Unset == [kind |-> "unset", items |-> << >>]

NoResult == [returned |-> FALSE]

MissingLocation == "Missing image location: provide s3Bucket/s3Key or imageUrl"

Init ==
    /\ pc = "idle"
    /\ event = NoEvent
    /\ path = "none"
    /\ OCR = "unset"
    /\ PaddleOCR \in BOOLEAN
    /\ lines = Unset
    /\ exc = "none"
    /\ result = NoResult

\* raise inside the try block of handler
Raise(msg) == pc' = "except" /\ exc' = msg

\* the runtime calls handler(event, _context)
Invoke(ev) ==
    /\ pc \in {"idle", "done"}
    /\ pc' = "validate"
    /\ event' = ev
    /\ path' = "none"
    /\ lines' = Unset
    /\ exc' = "none"
    /\ result' = NoResult
    /\ UNCHANGED << OCR, PaddleOCR >>

has_location(ev) == (ev.s3Bucket /\ ev.s3Key) \/ ev.imageUrl

Validate ==
    /\ pc = "validate"
    /\ IF event.kind # "dict" THEN Raise("AttributeError")
       ELSE IF ~has_location(event) THEN Raise(MissingLocation)
       ELSE pc' = "download" /\ exc' = exc
    /\ UNCHANGED << event, path, OCR, PaddleOCR, lines, result >>

\* _download_s3_object when bucket and key are given, else _download_http;
\* the payload is not read after this step
Download ==
    /\ pc = "download"
    /\ \E ok \in BOOLEAN :
          IF ok
          THEN /\ pc' = "init"
               /\ path' = "tmpfile"
               /\ exc' = exc
          ELSE /\ Raise(IF event.s3Bucket /\ event.s3Key
                        THEN "S3 download failed" ELSE "HTTP download failed")
               /\ path' = path
    /\ event' = NoEvent
    /\ UNCHANGED << OCR, PaddleOCR, lines, result >>

\* _init_ocr: the lazy singleton
InitOcr ==
    /\ pc = "init"
    /\ IF OCR = "inst"
       THEN pc' = "ocr" /\ exc' = exc /\ OCR' = OCR
       ELSE IF ~PaddleOCR
            THEN Raise("PaddleOCR not available in runtime") /\ OCR' = "None"
            ELSE \E ok \in BOOLEAN :
                    IF ok THEN pc' = "ocr" /\ exc' = exc /\ OCR' = "inst"
                    ELSE Raise("PaddleOCR failed to load") /\ OCR' = "None"
    /\ UNCHANGED << event, path, PaddleOCR, lines, result >>

\* result = ocr.ocr(path, cls=True); lines = result[0] if it is a list else []
EngineResults ==
    { "raises", "not a list", "empty list", "[None]", "[scalar]", "[list]" }

Recognize ==
    /\ pc = "ocr"
    /\ \E r \in EngineResults :
          CASE r = "raises" -> Raise("recognition failed") /\ lines' = lines
            [] r = "not a list" -> pc' = "rank" /\ exc' = exc /\ lines' = List(<< >>)
            [] r = "empty list" -> Raise("list index out of range") /\ lines' = lines
            [] r = "[None]" -> pc' = "rank" /\ exc' = exc /\ lines' = NoneLines
            [] r = "[scalar]" -> pc' = "rank" /\ exc' = exc /\ lines' = ScalarLines
            [] r = "[list]" ->
                   \E b \in Batches : pc' = "rank" /\ exc' = exc /\ lines' = List(b)
    /\ UNCHANGED << event, path, OCR, PaddleOCR, result >>

\* titles, authors = _heuristic_candidates(lines) and the return
Rank ==
    /\ pc = "rank"
    /\ IF lines.kind = "scalar"
       THEN Raise("object is not iterable") /\ result' = result
       ELSE LET c == heuristic_candidates(lines.items)
            IN  /\ result' = [title_candidates |-> c.titles,
                              author_candidates |-> c.authors,
                              language_guess |-> "en"]
                /\ pc' = "done"
                /\ exc' = exc
    /\ UNCHANGED << event, path, OCR, PaddleOCR, lines >>

\* an except clause that returns the error alone
ExceptErrorOnly ==
    /\ pc = "except"
    /\ result' = [error |-> exc]
    /\ pc' = "done"
    /\ UNCHANGED << event, path, OCR, PaddleOCR, lines, exc >>

\* except Exception as e
Except ==
    /\ pc = "except"
    /\ result' = [error |-> exc,
                  title_candidates |-> << >>,
                  author_candidates |-> << >>,
                  language_guess |-> "en"]
    /\ pc' = "done"
    /\ UNCHANGED << event, path, OCR, PaddleOCR, lines, exc >>

Next ==
    \/ \E ev \in Events : Invoke(ev)
    \/ Validate
    \/ Download
    \/ InitOcr
    \/ Recognize
    \/ Rank
    \/ Except

Spec == Init /\ [][Next]_vars


(***************************************************************************)
(* Vocabulary of the properties.  A returned ranking is a state in which   *)
(* handler has returned the candidates of _heuristic_candidates(lines).    *)
(* The ranking order is restated here on the accepted lines: line i comes  *)
(* before line j when its salience is greater, or equal with i earlier in  *)
(* the input.                                                              *)
(***************************************************************************)
Ranked == pc = "done" /\ exc = "none"

batch == lines.items
titles == result.title_candidates
authors == result.author_candidates
Outputs == << titles, authors >>

AuthorTest(v) ==
    /\ \/ Contains(v, << "," >>)
       \/ Contains(v, << " ", "a", "n", "d", " " >>)
       \/ Contains(v, << " ", "&", " " >>)
    /\ Len(v) < 80

\* The accepted lines of the batch with, for each, its salience, its place in
\* the ranking order, its normalized value, the candidate it would give and
\* its category (0 too short, 1 title, 2 author).
View ==
    LET acc == parse_lines(batch)
        n == Len(acc)
        sal == [i \in 1..n |-> acc[i].conf * (10000 + acc[i].area)]
        val == [i \in 1..n |-> norm(acc[i].text)]
    IN  [ n |-> n,
          acc |-> acc,
          sal |-> sal,
          rank |-> [i \in 1..n |->
                      1 + Cardinality({j \in 1..n :
                            sal[j] > sal[i] \/ (sal[j] = sal[i] /\ j < i)})],
          val |-> val,
          low |-> [i \in 1..n |-> lower(val[i])],
          kept |-> [i \in 1..n |->
                      [value |-> val[i], confidence |-> round3(acc[i].conf)]],
          cat |-> [i \in 1..n |->
                      IF Len(val[i]) < 3 THEN 0
                      ELSE IF AuthorTest(val[i]) THEN 2 ELSE 1] ]

Fewer4(item) == item.bbox.kind = "list" /\ Len(item.bbox.pts) < 4

Malformed(item) ==
    \/ item.bbox.kind = "absent"
    \/ item.text.kind \in {"absent", "none"}
    \/ item.conf.kind \in {"absent", "str"}
    \/ \E k \in 1..Len(item.bbox.pts) :
          item.bbox.pts[k][1].kind # "num" \/ item.bbox.pts[k][2].kind # "num"

WellFormed(item) == ~Malformed(item)
FourPoints(item) == ~Fewer4(item)

\* C1: in a returned ranking, no two title candidates and no two author
\* candidates have values that are equal after lower-casing.
C1_Unique ==
    Ranked =>
        \A c \in 1..2 : \A i, j \in 1..Len(Outputs[c]) :
            i < j => lower(Outputs[c][i].value) # lower(Outputs[c][j].value)

\* two accepted lines of one category whose values differ only in case
C1_Witness ==
    /\ Ranked
    /\ LET V == View
       IN  \E i, j \in 1..V.n :
              /\ V.cat[i] # 0 /\ V.cat[i] = V.cat[j]
              /\ V.rank[i] <= 20 /\ V.rank[j] <= 20
              /\ V.val[i] # V.val[j]
              /\ V.low[i] = V.low[j]

\* C2: every author candidate's value contains "," or " and " or " & " and
\* is shorter than 80; no title candidate's value passes that test.
C2_Classified ==
    Ranked =>
        /\ \A k \in 1..Len(authors) : AuthorTest(authors[k].value)
        /\ \A k \in 1..Len(titles) : ~AuthorTest(titles[k].value)

\* an author is returned, and so is a title that has a comma and 80 characters
C2_Witness ==
    /\ Ranked
    /\ Len(authors) > 0
    /\ \E k \in 1..Len(titles) :
          Contains(titles[k].value, << "," >>) /\ Len(titles[k].value) = 80

C4_FewerThanFourExcluded ==
    (pc = "done" /\ lines.kind = "list") =>
        /\ exc = "none"
        /\ LET h == heuristic_candidates(SelectSeq(batch, FourPoints))
           IN  Outputs = << h.titles, h.authors >>

\* C5: entries without box, text or confidence, or with a non-numeric
\* coordinate or confidence, raise nothing and change nothing: the ranking
\* returned is that of the batch without them.
C5_MalformedSkipped ==
    (pc = "done" /\ lines.kind = "list") =>
        /\ exc = "none"
        /\ LET h == heuristic_candidates(SelectSeq(batch, WellFormed))
           IN  Outputs = << h.titles, h.authors >>

\* a malformed entry ahead of a well-formed one that yields a candidate
C5_Witness ==
    /\ Ranked
    /\ Len(batch) >= 2
    /\ Malformed(batch[1])
    /\ batch[1].conf.kind = "str"
    /\ WellFormed(batch[2])
    /\ Len(titles) + Len(authors) > 0

\* C6: handler always ends with a result that has title_candidates,
\* author_candidates and language_guess = "en"; when a stage raised, the
\* result has the error string and two empty lists; when none did, it has
\* no error field.
C6_UniformResult ==
    /\ exc # "none" => pc \in {"except", "done"}
    /\ pc = "done" =>
          /\ {"title_candidates", "author_candidates", "language_guess"}
                \subseteq DOMAIN result
          /\ result.language_guess = "en"
          /\ exc # "none" =>
                /\ "error" \in DOMAIN result
                /\ result.error = exc
                /\ result.title_candidates = << >>
                /\ result.author_candidates = << >>
          /\ exc = "none" => "error" \notin DOMAIN result

\* the payload named no location and handler returned the error result
C6_Witness ==
    /\ pc = "done"
    /\ exc = MissingLocation
    /\ "error" \in DOMAIN result

\* C7: each output has at most 5 candidates, and an empty batch yields two
\* empty outputs.
C7_AtMostFive ==
    Ranked =>
        /\ Len(titles) <= 5
        /\ Len(authors) <= 5
        /\ batch = << >> => titles = << >> /\ authors = << >>

\* more than 5 distinct titles among the 20 first lines, and 5 returned
C7_Witness ==
    /\ Ranked
    /\ LET V == View
       IN  Cardinality({V.low[i] : i \in {j \in 1..V.n :
                                            V.cat[j] = 1 /\ V.rank[j] <= 20}}) > 5
    /\ Len(titles) = 5

\* C8: every candidate value has at least 3 and at most 200 characters, no
\* newline or tab, no leading space and no two spaces in a row.
C8_ValueLength ==
    Ranked =>
        \A c \in 1..2 : \A k \in 1..Len(Outputs[c]) :
            LET v == Outputs[c][k].value
            IN  /\ Len(v) >= 3
                /\ Len(v) <= 200
                /\ v[1] # " "
                /\ \A i \in 1..Len(v) : v[i] \notin {"\n", "\t"}
                /\ \A i \in 1..(Len(v) - 1) : ~(v[i] = " " /\ v[i + 1] = " ")

\* a raw text of more than 200 characters returned cut to 200
C8_Witness ==
    /\ Ranked
    /\ \E i \in 1..Len(batch) : Len(batch[i].text.s) > 200
    /\ \E k \in 1..Len(titles) : Len(titles[k].value) = 200

\* C9 as stated: no line is ranked above a line of higher confidence and
\* smaller area.
C9_AsStated ==
    Ranked =>
        LET r == ranked_lines(batch)
        IN  \A p, q \in 1..Len(r) :
                p < q => ~(r[q].conf > r[p].conf /\ r[q].area < r[p].area)

\* C9 amended: a line is ranked above a line of higher confidence and
\* smaller area only when its salience conf * (1 + area / 10000) is at
\* least the other's.
C9_BySalience ==
    Ranked =>
        LET r == ranked_lines(batch)
        IN  \A p, q \in 1..Len(r) :
                (p < q /\ r[q].conf > r[p].conf /\ r[q].area < r[p].area)
                    => r[p].conf * (10000 + r[p].area) >= r[q].conf * (10000 + r[q].area)

\* a line ranked above one of higher confidence and smaller area
C9_Witness ==
    /\ Ranked
    /\ LET r == ranked_lines(batch)
       IN  \E p, q \in 1..Len(r) :
               p < q /\ r[q].conf > r[p].conf /\ r[q].area < r[p].area

\* C10: every candidate returned is the value and rounded confidence of one
\* of the 20 first accepted lines of the ranking order.
C10_TopTwenty ==
    Ranked =>
        LET V == View
        IN  \A c \in 1..2 : \A k \in 1..Len(Outputs[c]) :
                \E i \in 1..V.n : V.rank[i] <= 20 /\ Outputs[c][k] = V.kept[i]

\* a line ranked 21st or lower whose value would be a candidate and is the
\* value of none of the 20 first, while both outputs have fewer than 5
C10_Witness ==
    /\ Ranked
    /\ Len(titles) < 5
    /\ Len(authors) < 5
    /\ LET V == View
       IN  \E i \in 1..V.n :
              /\ V.rank[i] > 20
              /\ V.cat[i] # 0
              /\ \A j \in 1..V.n : V.rank[j] <= 20 => V.low[j] # V.low[i]

=============================================================================
